---- MODULE Spec2Model ----
(***************************************************************************)
(* A model of detailed-comments-app.py: one Streamlit session runs main()  *)
(* on a click of the generate button; the run validates the description,   *)
(* calls the model once, extracts the script from the reply, derives the   *)
(* file name, optionally prepends the header, and writes the file.         *)
(*                                                                         *)
(* Text is a sequence of characters, each character a string.  A code      *)
(* point outside ASCII, and the grave accent, is written by its name       *)
(* ("U+00E9", "U+0060").  File content is                                  *)
(* a sequence of bytes: an ASCII byte is written as its character, any     *)
(* other byte by its hexadecimal name ("0xE9").                            *)
(***************************************************************************)
EXTENDS Integers, Sequences, FiniteSets, TLC

\* ------------------------------------------------------------------------
\* Bounds of the input spaces
\* ------------------------------------------------------------------------

\* The longest model reply of the extraction runs, in pieces of RawPieces.
MaxRawPieces == 4

\* The longest typed description of the naming runs, in pieces of DescPieces.
MaxDescPieces == 3

\* ------------------------------------------------------------------------
\* Characters and strings
\* ------------------------------------------------------------------------

\* Python's None (send_message_to_model's result after an exception): a value
\* that is no text, no character being named "NoneType".
None == <<"NoneType">>

\* The characters str.isspace() holds of, which are also those \s matches.
Whitespace == {" ", "\t", "\n", "\r", "\f"}

UpperLetters ==
    <<"A", "B", "C", "D", "E", "F", "G", "H", "I", "J", "K", "L", "M",
      "N", "O", "P", "Q", "R", "S", "T", "U", "V", "W", "X", "Y", "Z">>

LowerLetters ==
    <<"a", "b", "c", "d", "e", "f", "g", "h", "i", "j", "k", "l", "m",
      "n", "o", "p", "q", "r", "s", "t", "u", "v", "w", "x", "y", "z">>

\* str.lower() on one character.
LowerChar(c) ==
    IF \E k \in 1..26 : UpperLetters[k] = c
    THEN LowerLetters[CHOOSE k \in 1..26 : UpperLetters[k] = c]
    ELSE c

\* str.lower().
Lower(s) == [i \in 1..Len(s) |-> LowerChar(s[i])]

\* s[:n].
Take(s, n) == SubSeq(s, 1, IF Len(s) < n THEN Len(s) ELSE n)

\* s[n:] for an index n counted from 1.
DropTo(s, n) == SubSeq(s, n, Len(s))

\* str.replace(old, new) for a one-character old.
Replace(s, old, new) == [i \in 1..Len(s) |-> IF s[i] = old THEN new ELSE s[i]]

RECURSIVE LStrip(_)
\* str.lstrip().
LStrip(s) ==
    IF s # <<>> /\ Head(s) \in Whitespace THEN LStrip(Tail(s)) ELSE s

RECURSIVE RStrip(_)
\* str.rstrip().
RStrip(s) ==
    IF s # <<>> /\ s[Len(s)] \in Whitespace
    THEN RStrip(SubSeq(s, 1, Len(s) - 1))
    ELSE s

\* str.strip().
Strip(s) == RStrip(LStrip(s))

\* The test "ai_code is not None" in place of the truth value.
IsNotNone(v) == v # None

\* Python's truth value of a str-or-None.
Truthy(v) == v # None /\ v # <<>>

\* ------------------------------------------------------------------------
\* re.search(r'[3 backticks]powershell\s*(.*?)\s*[3 backticks]', ai_code, re.DOTALL | re.IGNORECASE)
\* ------------------------------------------------------------------------

\* The grave accent (U+0060), which a TLA+ string cannot hold.
Backtick == "U+0060"

Fence == <<Backtick, Backtick, Backtick>>

OpenMarker ==
    <<Backtick, Backtick, Backtick, "p", "o", "w", "e", "r", "s", "h", "e", "l", "l">>

\* The flag re.IGNORECASE of the search.
ReIgnoreCase == TRUE

\* The flag re.DOTALL of the search.
ReDotAll == TRUE

\* Two characters match as pattern literal and subject.
CharMatches(p, c) ==
    IF ReIgnoreCase THEN LowerChar(p) = LowerChar(c) ELSE p = c

\* The literal lit matches s at index i.
LitAt(s, i, lit) ==
    /\ i + Len(lit) - 1 <= Len(s)
    /\ \A k \in 1..Len(lit) : CharMatches(lit[k], s[i + k - 1])

\* The pattern's "." matches c.
DotMatches(c) == ReDotAll \/ c # "\n"

RECURSIVE WsRun(_, _)
\* The length of the longest run of whitespace of s from index i: what a
\* greedy \s* takes first.
WsRun(s, i) ==
    IF i <= Len(s) /\ s[i] \in Whitespace THEN 1 + WsRun(s, i + 1) ELSE 0

\* The tail \s*FENCE of the pattern matches s from index e, \s* giving back
\* whitespace as needed.
CloseAt(s, e) == \E r \in 0..WsRun(s, e) : LitAt(s, e + r, Fence)

RECURSIVE GreedyEnd(_, _, _)
\* A greedy group (.*) starting at index g: the index after the longest
\* group, not beyond e, after which \s*FENCE matches, 0 when there is none.
GreedyEnd(s, g, e) ==
    IF e < g THEN 0
    ELSE IF (\A k \in g..(e - 1) : DotMatches(s[k])) /\ CloseAt(s, e) THEN e
    ELSE GreedyEnd(s, g, e - 1)

RECURSIVE LazyFrom(_, _)
\* The lazy group tried with its end at e, then one character further.
LazyFrom(s, e) ==
    IF CloseAt(s, e) THEN e
    ELSE IF e <= Len(s) /\ DotMatches(s[e]) THEN LazyFrom(s, e + 1)
    ELSE 0

\* The pattern with (.*) for (.*?).
LazyEndGreedy(s, g) == GreedyEnd(s, g, Len(s) + 1)

\* The lazy group (.*?) starting at index g: the index after the shortest
\* group after which \s*FENCE matches, 0 when there is none.
LazyEnd(s, g) == LazyFrom(s, g)

RECURSIVE GroupAfter(_, _, _)
\* The pattern after its opening literal, from index j with the first \s*
\* taking k characters: <<start, end>> of group 1, <<>> when nothing matches
\* with k or fewer.
GroupAfter(s, j, k) ==
    LET e == LazyEnd(s, j + k)
    IN  IF e # 0 THEN <<j + k, e>>
        ELSE IF k = 0 THEN <<>>
        ELSE GroupAfter(s, j, k - 1)

\* The pattern matched at index i: group 1's <<start, end>>, or <<>>.
MatchAt(s, i) ==
    IF LitAt(s, i, OpenMarker)
    THEN GroupAfter(s, i + Len(OpenMarker), WsRun(s, i + Len(OpenMarker)))
    ELSE <<>>

RECURSIVE SearchFrom(_, _)
\* re.search from index i: the leftmost index the pattern matches at.
SearchFrom(s, i) ==
    IF i > Len(s) THEN <<>>
    ELSE IF MatchAt(s, i) # <<>> THEN MatchAt(s, i)
    ELSE SearchFrom(s, i + 1)

\* re.search(...): <<>> for no match, else group 1's <<start, end>>.
ReSearch(s) == SearchFrom(s, 1)

\* match.group(1).
Group1(s, m) == SubSeq(s, m[1], m[2] - 1)

\* The extraction with the fallback taking the reply as it is.
ExtractNoStrip(ai_code) ==
    LET match == ReSearch(ai_code)
    IN  IF match # <<>> THEN Strip(Group1(ai_code, match)) ELSE ai_code

\* Lines 195-201: the script taken from the reply.
ExtractScript(ai_code) ==
    LET match == ReSearch(ai_code)
    IN  IF match # <<>> THEN Strip(Group1(ai_code, match)) ELSE Strip(ai_code)

\* ------------------------------------------------------------------------
\* File name (main, line 390; parse_and_save_ps1, line 204)
\* ------------------------------------------------------------------------

\* The slice bound of prompt_base[:30].
TitleLen == 30

\* The short title with strip() before the slice.
ShortTitleStripFirst(prompt_base) ==
    Lower(Replace(Take(Strip(prompt_base), TitleLen), " ", "_"))

\* The short title with a slice one character longer.
ShortTitleLonger(prompt_base) ==
    Lower(Replace(Strip(Take(prompt_base, TitleLen + 1)), " ", "_"))

\* prompt_base[:30].strip().replace(" ", "_").lower()
ShortTitle(prompt_base) ==
    Lower(Replace(Strip(Take(prompt_base, TitleLen)), " ", "_"))

FilePrefix == <<"c", "o", "m", "m", "a", "n", "d", "_">>

FileSuffix == <<".", "p", "s", "1">>

\* f"command_{short_title}.ps1"
FileName(short_title) == FilePrefix \o short_title \o FileSuffix

\* ------------------------------------------------------------------------
\* Header (parse_and_save_ps1, lines 207-219)
\* ------------------------------------------------------------------------

Digits == <<"0", "1", "2", "3", "4", "5", "6", "7", "8", "9">>

\* %m, %d, %H, %M, %S: two digits, zero-padded.
Pad2(n) == <<Digits[(n \div 10) + 1], Digits[(n % 10) + 1]>>

\* %Y for a four-digit year.
Pad4(n) == Pad2(n \div 100) \o Pad2(n % 100)

\* strftime("%Y-%m-%d %H:%M:%S")
StrFTime(t) ==
    Pad4(t.year) \o <<"-">> \o Pad2(t.month) \o <<"-">> \o Pad2(t.day) \o <<" ">>
    \o Pad2(t.hour) \o <<":">> \o Pad2(t.minute) \o <<":">> \o Pad2(t.second)

\* The values datetime.datetime.now() takes in the runs.
Clock ==
    { [year |-> 2025, month |-> 1, day |-> 5, hour |-> 9, minute |-> 3, second |-> 7],
      [year |-> 2024, month |-> 12, day |-> 31, hour |-> 23, minute |-> 59, second |-> 58] }

RuleLine ==
    <<"#", "=", "=", "=", "=", "=", "=", "=", "=", "=", "=", "=", "=", "=", "=", "=", "=",
    "=", "=", "=", "=", "=", "=", "=", "=", "=", "=", "=", "=", "=", "=", "=", "=", "=",
    "=", "=", "=", "=", "=", "=", "=", "=", "=", "=", "=", "=", "=", "=", "=", "=", "=",
    "=", "=", "=", "=", "=", "=", "=", "=", "=", "=", "=", "=", "=", "=", "=", "=", "=",
    "=", "=", "=", "=", "=", "=", "=", "=", "=", "=", "=", "=">>

BannerLine ==
    <<"#", " ", "S", "c", "r", "i", "p", "t", " ", "G", "e", "n", "e", "r", "a", "t", "e",
    "d", " ", "b", "y", " ", "G", "o", "o", "g", "l", "e", " ", "G", "e", "m", "i", "n",
    "i", " ", "2", " ", "P", "o", "w", "e", "r", "S", "h", "e", "l", "l", " ", "C", "o",
    "m", "m", "a", "n", "d", " ", "G", "e", "n">>

DatePrefix == <<"#", " ", "D", "a", "t", "e", ":", " ">>

AuthorLine ==
    <<"#", " ", "A", "u", "t", "h", "o", "r", ":", " ", "E", "l", "i", "a", "s", " ", "A",
    "n", "d", "r", "a", "d", "e", " ", "A", "K", "A", " ", "C", "h", "a", "o", "s", "4",
    "4", "5", "5">>

\* The last line of the f-string: the four spaces before its closing quotes.
HeaderIndent == <<" ", " ", " ", " ">>

\* The header without its date line.
HeaderNoDate(current_date) ==
    <<"\n">> \o RuleLine \o <<"\n">> \o BannerLine \o <<"\n">>
    \o AuthorLine \o <<"\n">> \o RuleLine \o <<"\n">> \o HeaderIndent

\* The f-string of lines 211-217, which opens with a line break.
Header(current_date) ==
    <<"\n">> \o RuleLine \o <<"\n">> \o BannerLine \o <<"\n">>
    \o DatePrefix \o current_date \o <<"\n">>
    \o AuthorLine \o <<"\n">> \o RuleLine \o <<"\n">> \o HeaderIndent

\* Lines 207-219: ps1_code = header + ps1_code when add_header.
AddHeader(add_header, current_date, script) ==
    IF add_header THEN Header(current_date) \o script ELSE script

\* ------------------------------------------------------------------------
\* Text encodings and files (parse_and_save_ps1, lines 222-224)
\* ------------------------------------------------------------------------

\* The options of the encoding selectbox (line 326).
Encodings == {"utf-8", "ansi"}

\* Where the interpreter runs.  "ansi" is a codec name on Windows only (an
\* alias of mbcs); elsewhere open() raises LookupError for it.
Platforms == {"windows", "posix"}

\* The codec lookup of open(..., encoding=encoding) succeeds.
KnownEncoding(enc, platform) == enc = "utf-8" \/ platform = "windows"

RECURSIVE TranslateRange(_, _, _)
\* text[lo..hi] with "\r\n" for every "\n", by halves.
TranslateRange(text, lo, hi) ==
    IF lo > hi THEN <<>>
    ELSE IF lo = hi
    THEN IF text[lo] = "\n" THEN <<"\r", "\n">> ELSE <<text[lo]>>
    ELSE LET mid == (lo + hi) \div 2
         IN  TranslateRange(text, lo, mid) \o TranslateRange(text, mid + 1, hi)

\* Text mode with newline=None writes os.linesep for every "\n".
TranslateNewlines(text, platform) ==
    IF platform = "windows" THEN TranslateRange(text, 1, Len(text)) ELSE text

\* The code points outside ASCII of the runs: e acute, which code page 1252
\* holds, and the rightwards arrow, which it does not.
NonAscii == {"U+00E9", "U+2192"}

\* The character c has an encoding in enc.
EncodableChar(c, enc) == enc = "utf-8" \/ c # "U+2192"

\* The bytes of one character.
EncodeChar(c, enc) ==
    IF c = "U+00E9"
    THEN IF enc = "utf-8" THEN <<"0xC3", "0xA9">> ELSE <<"0xE9">>
    ELSE IF c = "U+2192" THEN <<"0xE2", "0x86", "0x92">>
    ELSE <<c>>

\* The encoder accepts the text (errors="strict").
Encodable(text, enc) == \A i \in 1..Len(text) : EncodableChar(text[i], enc)

RECURSIVE EncodeRange(_, _, _, _)
\* The bytes of text[lo..hi], by halves.
EncodeRange(text, enc, lo, hi) ==
    IF lo > hi THEN <<>>
    ELSE IF lo = hi THEN EncodeChar(text[lo], enc)
    ELSE LET mid == (lo + hi) \div 2
         IN  EncodeRange(text, enc, lo, mid) \o EncodeRange(text, enc, mid + 1, hi)

\* The bytes f.write(text) hands to the file: line ends translated, then
\* encoded.
Encode(text, enc, platform) ==
    LET t == TranslateNewlines(text, platform)
    IN  EncodeRange(t, enc, 1, Len(t))

\* No file at all.
NoFiles == [n \in {} |-> <<>>]

\* What a path holds: <<FALSE>> for no file, <<TRUE, bytes>> for a file.
FileState(files, name) ==
    IF name \in DOMAIN files THEN <<TRUE, files[name]>> ELSE <<FALSE>>

\* The file opened without O_TRUNC: what it holds stays.
TruncateKeep(files, name) ==
    [n \in DOMAIN files \cup {name} |->
        IF n \in DOMAIN files THEN files[n] ELSE <<>>]

\* open(name, "w"): the file is created, or cut to length 0 (O_CREAT|O_TRUNC).
Truncate(files, name) ==
    [n \in DOMAIN files \cup {name} |-> IF n = name THEN <<>> ELSE files[n]]

\* write(2) of data at offset 0 of an open file: the bytes beyond the data
\* stay as they are.
WriteAt0(files, name, data) ==
    LET old == IF name \in DOMAIN files THEN files[name] ELSE <<>>
    IN  [n \in DOMAIN files \cup {name} |->
            IF n = name THEN data \o DropTo(old, Len(data) + 1) ELSE files[n]]

\* How many bytes a flush that fails may have written before it fails: none
\* or half of them.
PartialLens(n) == {0, n \div 2}

\* ------------------------------------------------------------------------
\* State
\* ------------------------------------------------------------------------

VARIABLES
    run,          \* per session: the locals of its run of main()
    fs,           \* the working directory: file name -> bytes
    platform,     \* where the interpreter runs
    last_flush    \* the session whose write reached a file last, per file name

vars == <<run, fs, platform, last_flush>>

\* The sessions of the app: each is a thread running main().
Sessions == DOMAIN run

\* ------------------------------------------------------------------------
\* Inputs
\* ------------------------------------------------------------------------

\* The options of the predefined-prompts selectbox (line 306).
PresetNone == <<"N", "o", "n", "e">>

PresetListFiles == <<"L", "i", "s", "t", " ", "f", "i", "l", "e", "s">>

PresetManageProcesses ==
    <<"M", "a", "n", "a", "g", "e", " ", "p", "r", "o", "c", "e", "s", "s", "e", "s">>

PresetManageServices ==
    <<"M", "a", "n", "a", "g", "e", " ", "s", "e", "r", "v", "i", "c", "e", "s">>

Presets ==
    {PresetNone, PresetListFiles, PresetManageProcesses, PresetManageServices}

RECURSIVE Compose(_, _)
\* The texts made of at most n of the given pieces.
Compose(pieces, n) ==
    IF n = 0 THEN {<<>>}
    ELSE LET S == Compose(pieces, n - 1)
         IN  S \cup {s \o q : s \in S, q \in pieces}

OpenMarkerMixed ==
    <<Backtick, Backtick, Backtick, "P", "o", "w", "e", "r", "S", "h", "e", "l", "l">>

\* What the replies of the extraction runs are made of: the opening marker
\* in mixed case, the fence, the bare word (which after a fence makes the
\* marker in lower case), white space with a line break, a letter, and a
\* single grave accent.
RawPieces ==
    { OpenMarkerMixed, Fence,
      <<"p", "o", "w", "e", "r", "s", "h", "e", "l", "l">>,
      <<" ", "\n">>, <<"a">>, <<Backtick>> }

\* The description of the spec's naming example.
DescProcesses ==
    <<"L", "i", "s", "t", " ", "a", "l", "l", " ", "r", "u", "n", "n", "i", "n", "g", " ",
    "p", "r", "o", "c", "e", "s", "s", "e", "s", " ", "t", "h", "a", "t", " ", "u", "s",
    "e", " ", "C", "P", "U">>

\* What the typed descriptions of the naming runs are made of: the example,
\* a description of 15 characters, one of 30 that starts with a tab and
\* ends with a space, a space, a tab and a letter.
DescPieces ==
    { DescProcesses,
      <<"M", "a", "n", "a", "g", "e", " ", "S", "e", "r", "v", "i", "c", "e", "s">>,
      <<"\t", "G", "e", "t", " ", "S", "e", "r", "v", "i", "c", "e", "s", " ", "O",
      "n", " ", "S", "e", "r", "v", "e", "r", " ", "A", "l", "p", "h", "a", " ">>,
      <<" ">>, <<"\t">>, <<"X">> }

\* A reply wrapped in a fenced block.
Fenced(script) == OpenMarker \o <<"\n">> \o script \o <<"\n">> \o Fence

\* The inputs of the runs of whole cycles: what the user types and selects,
\* what the model replies, what the clock shows.
CycleInputs ==
    [ texts     |-> {<<>>, <<"A", " ", "b">>},
      presets   |-> {PresetNone},
      encodings |-> Encodings,
      headers   |-> BOOLEAN,
      replies   |-> { <<>>, <<"a">>, Fenced(<<"l", "s">>),
                      <<"a", "U+2192", "U+00E9">>, <<"U+00E9">>,
                      <<" ", "\n">> },
      clock     |-> Clock ]

\* The inputs of the extraction runs: every reply of at most MaxRawPieces
\* pieces.
ExtractInputs ==
    [ texts     |-> {<<>>, <<"A", " ", "b">>},
      presets   |-> {PresetNone},
      encodings |-> {"utf-8"},
      headers   |-> BOOLEAN,
      replies   |-> Compose(RawPieces, MaxRawPieces),
      clock     |-> Clock ]

\* The inputs of the naming runs: every description of at most MaxDescPieces
\* pieces, with every preset.
NameInputs ==
    [ texts     |-> Compose(DescPieces, MaxDescPieces),
      presets   |-> Presets,
      encodings |-> {"utf-8"},
      headers   |-> {FALSE},
      replies   |-> {<<"a">>},
      clock     |-> {CHOOSE t \in Clock : t.year = 2025} ]

\* The inputs of the runs of two sessions that derive the same file name.
RaceInputs ==
    [ texts     |-> {<<>>, <<"A", " ", "b">>},
      presets   |-> {PresetNone},
      encodings |-> {"utf-8"},
      headers   |-> {FALSE},
      replies   |-> { <<"a">>, <<"l", "s", " ", "-", "l">>,
                      Fenced(<<"l", "s", " ", "-", "l">>) },
      clock     |-> {CHOOSE t \in Clock : t.year = 2025} ]

\* ------------------------------------------------------------------------
\* One run of main()
\* ------------------------------------------------------------------------

\* A session between two runs: the locals of main() do not exist.
\* last_exchange records the message and the reply text of the session's
\* latest answered model call, <<>> before there is one.
Idle ==
    [ pc          |-> "idle",
      typed       |-> <<>>,
      prompt_presets |-> PresetNone,
      prompt_base |-> <<>>,
      encoding    |-> "utf-8",
      add_header  |-> FALSE,
      ai_code     |-> None,
      short_title |-> <<>>,
      file_name   |-> <<>>,
      script      |-> <<>>,
      current_date |-> <<>>,
      ps1_code    |-> <<>>,
      pending     |-> <<>>,
      download    |-> <<>>,
      outcome     |-> "none",
      api_calls   |-> 0,
      api_failed  |-> FALSE,
      parse_calls |-> 0,
      fs_before   |-> NoFiles,
      message     |-> <<>>,
      history     |-> <<>>,
      last_exchange |-> <<>> ]

\* Lines 350-355: the preset combined with the typed text.
EffectiveDescription(text, preset) ==
    IF preset # PresetNone
    THEN IF text # <<>> THEN preset \o <<" ", ",", " ">> \o text ELSE preset
    ELSE text

\* The validation left out.
NeverEmpty(prompt_base) == FALSE

\* Line 359: not prompt_base.
NoDescription(prompt_base) == prompt_base = <<>>

\* What MODEL.start_chat(history=[]).send_message(message) does when it
\* does not return a response.
Raise == <<"Exception">>

\* The handler returning a message text in place of None.
OnExceptionMessage == <<"E", "r", "r", "o", "r">>

\* Lines 77-81: the result of send_message_to_model after an exception.
OnException == None

\* Lines 56-81: the result of send_message_to_model.
SendMessageToModel(response) ==
    IF response = Raise THEN OnException ELSE response

\* Lines 357-363: the button is pressed; the widgets are read and the
\* description is validated.
Click(p, in) ==
    /\ run[p].pc = "idle"
    /\ \E text \in in.texts, preset \in in.presets,
          enc \in in.encodings, hdr \in in.headers :
          LET d == EffectiveDescription(text, preset)
          IN  run' = [run EXCEPT ![p] =
                  [ Idle EXCEPT
                      !.typed = text,
                      !.prompt_presets = preset,
                      !.prompt_base = d,
                      !.encoding = enc,
                      !.add_header = hdr,
                      !.fs_before = fs,
                      !.last_exchange = run[p].last_exchange,
                      !.pc = IF NoDescription(d) THEN "done" ELSE "call",
                      !.outcome = IF NoDescription(d)
                                  THEN "validation_error" ELSE "none" ]]
    /\ UNCHANGED <<fs, platform, last_flush>>

\* Line 125: the slot of the prompt that the description fills.
PromptLabel ==
    << "*", "*", "C", "o", "m", "m", "a", "n", "d", " ",
       "D", "e", "s", "c", "r", "i", "p", "t", "i", "o", "n", ":", "*", "*", " " >>

\* Lines 120-159: the prompt built from the description; of the fixed text
\* and the other settings only the description's line is kept.
Prompt(prompt_base) == PromptLabel \o prompt_base \o <<"\n">>

\* A chat that starts from the session's latest exchange.
KeptHistory(last) == IF last = <<>> THEN <<>> ELSE <<last>>

\* Lines 66-73: a new GenerativeModel, and start_chat(history=[]) on it:
\* the history the chat starts from, whatever the session exchanged before.
StartChatHistory(last) == <<>>

\* The call repeated after an exception.
CallModelRetry(p, in) ==
    /\ run[p].pc = "call"
    /\ \E response \in in.replies \cup {Raise} :
          run' = [run EXCEPT
                    ![p].ai_code = SendMessageToModel(response),
                    ![p].api_calls = IF @ < 3 THEN @ + 1 ELSE @,
                    ![p].api_failed = (response = Raise),
                    ![p].pc = IF response = Raise THEN "call" ELSE "check"]
    /\ UNCHANGED <<fs, platform, last_flush>>

\* Lines 368-381 and 160-162: generate_powershell_command sends the prompt,
\* once, and returns what send_message_to_model returns.
CallModel(p, in) ==
    /\ run[p].pc = "call"
    /\ \E response \in in.replies \cup {Raise} :
          run' = [run EXCEPT
                    ![p].message = Prompt(run[p].prompt_base),
                    ![p].history = StartChatHistory(run[p].last_exchange),
                    ![p].ai_code = SendMessageToModel(response),
                    ![p].api_calls = @ + 1,
                    ![p].api_failed = (response = Raise),
                    ![p].pc = "check"]
    /\ UNCHANGED <<fs, platform, last_flush>>

\* Lines 384 and 401-403: if ai_code ... else the error is shown.
Check(p) ==
    /\ run[p].pc = "check"
    /\ run' = [run EXCEPT
                 ![p].pc = IF Truthy(run[p].ai_code) THEN "parse" ELSE "done",
                 ![p].outcome = IF Truthy(run[p].ai_code) THEN @ ELSE "api_error"]
    /\ UNCHANGED <<fs, platform, last_flush>>

\* Lines 390-392 and 195-219: the short title, and parse_and_save_ps1 up to
\* the opening of the file.
Parse(p, in) ==
    /\ run[p].pc = "parse"
    /\ \E now \in in.clock :
          LET title  == ShortTitle(run[p].prompt_base)
              date   == IF run[p].add_header THEN StrFTime(now) ELSE <<>>
              script == ExtractScript(run[p].ai_code)
          IN  run' = [run EXCEPT
                        ![p].short_title = title,
                        ![p].script = script,
                        ![p].file_name = FileName(title),
                        ![p].current_date = date,
                        ![p].ps1_code = AddHeader(run[p].add_header, date, script),
                        ![p].parse_calls = @ + 1,
                        ![p].pc = "open"]
    /\ UNCHANGED <<fs, platform, last_flush>>

\* Line 222: open(file_name, "w", encoding=encoding).  The file is created
\* or truncated first; the codec is looked up after that, and an unknown
\* one raises LookupError out of main().
Open(p) ==
    /\ run[p].pc = "open"
    /\ fs' = Truncate(fs, run[p].file_name)
    /\ run' = [run EXCEPT
                 ![p].pc = IF KnownEncoding(run[p].encoding, platform)
                           THEN "write" ELSE "done",
                 ![p].outcome = IF KnownEncoding(run[p].encoding, platform)
                                THEN @ ELSE "exception"]
    /\ UNCHANGED <<platform, last_flush>>

\* Line 222 when open() itself fails (the path is a directory, permission
\* is denied): OSError leaves main() and no file is touched.
OpenFails(p) ==
    /\ run[p].pc = "open"
    /\ run' = [run EXCEPT ![p].pc = "done", ![p].outcome = "exception"]
    /\ UNCHANGED <<fs, platform, last_flush>>

\* Line 224: f.write(ps1_code).  The text is encoded into the file object's
\* buffer; a character the codec lacks raises UnicodeEncodeError, the with
\* statement closes the file and the exception leaves main().
Write(p) ==
    /\ run[p].pc = "write"
    /\ IF Encodable(run[p].ps1_code, run[p].encoding)
       THEN run' = [run EXCEPT
                      ![p].pending = Encode(run[p].ps1_code, run[p].encoding, platform),
                      ![p].pc = "close"]
       ELSE run' = [run EXCEPT ![p].pc = "done", ![p].outcome = "exception"]
    /\ UNCHANGED <<fs, platform, last_flush>>

\* The end of the with statement: the buffer is flushed to the file at
\* offset 0 and the file is closed.
Close(p) ==
    /\ run[p].pc = "close"
    /\ fs' = WriteAt0(fs, run[p].file_name, run[p].pending)
    /\ last_flush' = [n \in DOMAIN last_flush \cup {run[p].file_name} |->
                         IF n = run[p].file_name THEN p ELSE last_flush[n]]
    /\ run' = [run EXCEPT ![p].pending = <<>>, ![p].pc = "download"]
    /\ UNCHANGED platform

\* The flush fails (disk full, I/O error) after part of the buffer: OSError
\* leaves main().
CloseFails(p) ==
    /\ run[p].pc = "close"
    /\ run[p].pending # <<>>
    /\ \E k \in PartialLens(Len(run[p].pending)) :
          fs' = WriteAt0(fs, run[p].file_name, Take(run[p].pending, k))
    /\ run' = [run EXCEPT
                 ![p].pending = <<>>, ![p].pc = "done", ![p].outcome = "exception"]
    /\ UNCHANGED <<platform, last_flush>>

\* Lines 226 and 395-400: parse_and_save_ps1 returns and the download button
\* offers ps1_code under file_name.
Download(p) ==
    /\ run[p].pc = "download"
    /\ run' = [run EXCEPT
                 ![p].download = <<run[p].file_name, run[p].ps1_code>>,
                 ![p].pc = "done",
                 ![p].outcome = "generated"]
    /\ UNCHANGED <<fs, platform, last_flush>>

\* The session's latest exchange after the run r: the one of r when its
\* call was answered, the one before r otherwise.
LastExchange(r) ==
    IF r.api_calls > 0 /\ ~r.api_failed
    THEN <<r.message, r.ai_code>> ELSE r.last_exchange

\* The run of main() is over; the session waits for the next click.
Rerun(p) ==
    /\ run[p].pc = "done"
    /\ run' = [run EXCEPT
                 ![p] = [Idle EXCEPT !.last_exchange = LastExchange(run[p])]]
    /\ UNCHANGED <<fs, platform, last_flush>>

\* ------------------------------------------------------------------------
\* Specifications
\* ------------------------------------------------------------------------

InitWith(sessions, platforms) ==
    /\ run = [p \in sessions |-> Idle]
    /\ fs = NoFiles
    /\ platform \in platforms
    /\ last_flush = NoFiles

\* One session, run after run.
Init == InitWith({1}, Platforms)

Next ==
    \/ \E p \in Sessions : Click(p, CycleInputs)
    \/ \E p \in Sessions : CallModel(p, CycleInputs)
    \/ \E p \in Sessions : Check(p)
    \/ \E p \in Sessions : Parse(p, CycleInputs)
    \/ \E p \in Sessions : Open(p)
    \/ \E p \in Sessions : OpenFails(p)
    \/ \E p \in Sessions : Write(p)
    \/ \E p \in Sessions : Close(p)
    \/ \E p \in Sessions : CloseFails(p)
    \/ \E p \in Sessions : Download(p)
    \/ \E p \in Sessions : Rerun(p)

Spec == Init /\ [][Next]_vars

\* One session, one run, over the replies of the extraction runs.
InitExtract == InitWith({1}, {"posix"})

NextExtract ==
    \/ \E p \in Sessions : Click(p, ExtractInputs)
    \/ \E p \in Sessions : CallModel(p, ExtractInputs)
    \/ \E p \in Sessions : Check(p)
    \/ \E p \in Sessions : Parse(p, ExtractInputs)
    \/ \E p \in Sessions : Open(p)
    \/ \E p \in Sessions : OpenFails(p)
    \/ \E p \in Sessions : Write(p)
    \/ \E p \in Sessions : Close(p)
    \/ \E p \in Sessions : CloseFails(p)
    \/ \E p \in Sessions : Download(p)

SpecExtract == InitExtract /\ [][NextExtract]_vars

\* One session, one run, over the descriptions of the naming runs.
InitName == InitWith({1}, {"posix"})

NextName ==
    \/ \E p \in Sessions : Click(p, NameInputs)
    \/ \E p \in Sessions : CallModel(p, NameInputs)
    \/ \E p \in Sessions : Check(p)
    \/ \E p \in Sessions : Parse(p, NameInputs)
    \/ \E p \in Sessions : Open(p)
    \/ \E p \in Sessions : OpenFails(p)
    \/ \E p \in Sessions : Write(p)
    \/ \E p \in Sessions : Close(p)
    \/ \E p \in Sessions : CloseFails(p)
    \/ \E p \in Sessions : Download(p)

SpecName == InitName /\ [][NextName]_vars

\* Two sessions, one run each.
InitRace == InitWith({1, 2}, Platforms)

NextRace ==
    \/ \E p \in Sessions : Click(p, RaceInputs)
    \/ \E p \in Sessions : CallModel(p, RaceInputs)
    \/ \E p \in Sessions : Check(p)
    \/ \E p \in Sessions : Parse(p, RaceInputs)
    \/ \E p \in Sessions : Open(p)
    \/ \E p \in Sessions : OpenFails(p)
    \/ \E p \in Sessions : Write(p)
    \/ \E p \in Sessions : Close(p)
    \/ \E p \in Sessions : CloseFails(p)
    \/ \E p \in Sessions : Download(p)

SpecRace == InitRace /\ [][NextRace]_vars

\* ------------------------------------------------------------------------
\* Properties
\* ------------------------------------------------------------------------

\* The run of session p has been through parse_and_save_ps1's computation.
Parsed(p) == run[p].parse_calls > 0

\* a and b are the same letter in some case, or the same character.
SameLetter(a, b) ==
    a = b \/ \E k \in 1..26 : {a, b} = {UpperLetters[k], LowerLetters[k]}

\* Three grave accents stand at index j of s.
IsFenceAt(s, j) ==
    /\ j >= 1
    /\ j + 2 <= Len(s)
    /\ \A k \in 0..2 : s[j + k] = Backtick

\* The word of the opening marker.
MarkerWord == <<"p", "o", "w", "e", "r", "s", "h", "e", "l", "l">>

\* The opening marker, three grave accents and the word in any letter case,
\* stands at index i of s.
IsMarkerAt(s, i) ==
    /\ IsFenceAt(s, i)
    /\ i + 2 + Len(MarkerWord) <= Len(s)
    /\ \A k \in 1..Len(MarkerWord) : SameLetter(s[i + 2 + k], MarkerWord[k])

\* Where the opening markers of s stand.
Markers(s) == {i \in 1..Len(s) : IsMarkerAt(s, i)}

\* Where the fences of s stand.
Fences(s) == {j \in 1..Len(s) : IsFenceAt(s, j)}

\* The fences that close a marker at i: those after the marker.
Closings(s, i) == {j \in Fences(s) : j >= i + Len(OpenMarker)}

\* s has a complete fenced block: an opening marker and, after it, a fence.
HasBlock(s) == \E i \in Markers(s) : Closings(s, i) # {}

\* The first block <<i, j>>: the leftmost marker that is closed, up to the
\* first fence after it.
FirstBlock(s) ==
    LET closed == {i \in Markers(s) : Closings(s, i) # {}}
        i == CHOOSE x \in closed : \A y \in closed : x <= y
        j == CHOOSE x \in Closings(s, i) : \A y \in Closings(s, i) : x <= y
    IN  <<i, j>>

\* What stands between the first block's marker and its closing fence.
Interior(s) ==
    LET b == FirstBlock(s) IN SubSeq(s, b[1] + Len(OpenMarker), b[2] - 1)

\* s from its first to its last character that is not white space.
Trimmed(s) ==
    LET ink == {i \in 1..Len(s) : s[i] \notin Whitespace}
    IN  IF ink = {} THEN <<>>
        ELSE SubSeq(s, CHOOSE i \in ink : \A j \in ink : i <= j,
                       CHOOSE i \in ink : \A j \in ink : i >= j)

\* C1: when the model call fails, the run ends with the API error, never
\* reaches parse_and_save_ps1, and leaves every file as it was.
C1_FailedCallWritesNothing ==
    \A p \in Sessions :
        run[p].api_failed =>
            /\ run[p].pc \in {"check", "done"}
            /\ run[p].parse_calls = 0
            /\ run[p].download = <<>>
            /\ fs = run[p].fs_before
            /\ run[p].pc = "done" => run[p].outcome = "api_error"

\* A run whose model call failed has ended, with a file of an earlier run
\* in the directory.
C1_Witness ==
    \E p \in Sessions :
        /\ run[p].api_failed
        /\ run[p].pc = "done"
        /\ run[p].outcome = "api_error"
        /\ \E n \in DOMAIN fs : fs[n] # <<>>

\* C2: of a reply with a fenced block and without header, the body is the
\* interior of the first block, trimmed, whatever stands before or after.
C2_FirstBlockInterior ==
    \A p \in Sessions :
        (Parsed(p) /\ ~run[p].add_header /\ HasBlock(run[p].ai_code)) =>
            run[p].ps1_code = Trimmed(Interior(run[p].ai_code))

\* A reply whose first block is opened by a marker that is not in lower
\* case, has white space around a script, and is followed by more text.
C2_Witness ==
    \E p \in Sessions :
        /\ Parsed(p) /\ ~run[p].add_header /\ HasBlock(run[p].ai_code)
        /\ ~ (SubSeq(run[p].ai_code, FirstBlock(run[p].ai_code)[1],
                     FirstBlock(run[p].ai_code)[1] + Len(OpenMarker) - 1) = OpenMarker)
        /\ Interior(run[p].ai_code) # Trimmed(Interior(run[p].ai_code))
        /\ run[p].ps1_code # <<>>
        /\ FirstBlock(run[p].ai_code)[2] + 2 < Len(run[p].ai_code)

\* C3: of a reply with no complete fenced block and without header, the
\* body is the whole reply, trimmed.
C3_FallbackWholeReply ==
    \A p \in Sessions :
        (Parsed(p) /\ ~run[p].add_header /\ ~HasBlock(run[p].ai_code)) =>
            run[p].ps1_code = Trimmed(run[p].ai_code)

\* A reply with an opening marker that is never closed, and white space at
\* an end.
C3_Witness ==
    \E p \in Sessions :
        /\ Parsed(p) /\ ~run[p].add_header /\ ~HasBlock(run[p].ai_code)
        /\ \E i \in 1..Len(run[p].ai_code) : IsMarkerAt(run[p].ai_code, i)
        /\ run[p].ai_code # Trimmed(run[p].ai_code)
        /\ run[p].ps1_code # <<>>

\* The short title the description d stands for: of the first 30 characters
\* of d, those from the first to the last that is not white space, each
\* space turned into an underscore and each letter into lower case.
TitleOf(d) ==
    LET cut == [i \in 1..(IF Len(d) < 30 THEN Len(d) ELSE 30) |-> d[i]]
        ink == {i \in 1..Len(cut) : cut[i] \notin Whitespace}
        lo  == CHOOSE i \in ink : \A j \in ink : i <= j
        hi  == CHOOSE i \in ink : \A j \in ink : i >= j
    IN  IF ink = {} THEN <<>>
        ELSE [i \in 1..(hi - lo + 1) |->
                 LET c == cut[lo + i - 1]
                 IN  IF c = " " THEN "_"
                     ELSE IF \E k \in 1..26 : UpperLetters[k] = c
                     THEN LowerLetters[CHOOSE k \in 1..26 : UpperLetters[k] = c]
                     ELSE c]

\* "command_" + title + ".ps1"
NameOf(title) ==
    <<"c", "o", "m", "m", "a", "n", "d", "_">> \o title \o <<".", "p", "s", "1">>

\* C4: the name of the written file and of the download is "command_" +
\* shortTitle + ".ps1", shortTitle being the description cut to 30
\* characters, then trimmed, then spaces to underscores, then lower case.
C4_FileNameFromDescription ==
    \A p \in Sessions :
        /\ Parsed(p) =>
              /\ run[p].short_title = TitleOf(run[p].prompt_base)
              /\ run[p].file_name = NameOf(TitleOf(run[p].prompt_base))
        /\ run[p].pc \in {"write", "close", "download"} =>
              NameOf(TitleOf(run[p].prompt_base)) \in DOMAIN fs
        /\ run[p].outcome = "generated" =>
              /\ run[p].download[1] = NameOf(TitleOf(run[p].prompt_base))
              /\ DOMAIN fs = {NameOf(TitleOf(run[p].prompt_base))}

\* A description of more than 30 characters, with white space at its start
\* and at the cut, capitals and inner spaces, whose file has been written.
C4_Witness ==
    \E p \in Sessions :
        /\ run[p].outcome = "generated"
        /\ Len(run[p].prompt_base) > 30
        /\ run[p].prompt_base[1] \in Whitespace
        /\ run[p].prompt_base[30] \in Whitespace
        /\ \E i \in 2..29 : run[p].prompt_base[i] = " "
        /\ \E i \in 2..29 : run[p].prompt_base[i] # LowerChar(run[p].prompt_base[i])

TitleProcessesThat ==
    <<"l", "i", "s", "t", "_", "a", "l", "l", "_", "r", "u", "n", "n", "i", "n", "g", "_",
    "p", "r", "o", "c", "e", "s", "s", "e", "s", "_", "t", "h", "a", "t">>

TitleProcessesTha ==
    <<"l", "i", "s", "t", "_", "a", "l", "l", "_", "r", "u", "n", "n", "i", "n", "g", "_",
    "p", "r", "o", "c", "e", "s", "s", "e", "s", "_", "t", "h", "a">>

\* C5, as the spec states it: "List all running processes that use CPU"
\* gives the short title "list_all_running_processes_that" and the file
\* name "command_list_all_running_processes_that.ps1".
C5_AsStated ==
    \A p \in Sessions :
        (Parsed(p) /\ run[p].prompt_base = DescProcesses) =>
            /\ run[p].short_title = TitleProcessesThat
            /\ run[p].file_name = NameOf(TitleProcessesThat)

\* C5, amended: "List all running processes that use CPU" gives the short
\* title "list_all_running_processes_tha", the 30 characters the cut
\* leaves, and the file name "command_list_all_running_processes_tha.ps1".
C5_ExampleFileName ==
    \A p \in Sessions :
        (Parsed(p) /\ run[p].prompt_base = DescProcesses) =>
            /\ run[p].short_title = TitleProcessesTha
            /\ run[p].file_name = NameOf(TitleProcessesTha)
            /\ Len(run[p].short_title) = 30

\* The example description has been through a whole run.
C5_Witness ==
    \E p \in Sessions :
        /\ run[p].prompt_base = DescProcesses
        /\ run[p].typed = DescProcesses
        /\ run[p].outcome = "generated"

\* The first line of s: what stands before its first line break.
FirstLine(s) ==
    LET breaks == {i \in 1..Len(s) : s[i] = "\n"}
    IN  IF breaks = {} THEN s
        ELSE SubSeq(s, 1, (CHOOSE i \in breaks : \A j \in breaks : i <= j) - 1)

\* d reads YYYY-MM-DD HH:MM:SS.
IsTimestamp(d) ==
    /\ Len(d) = 19
    /\ d[5] = "-" /\ d[8] = "-" /\ d[11] = " " /\ d[14] = ":" /\ d[17] = ":"
    /\ \A i \in (1..19) \ {5, 8, 11, 14, 17} : \E k \in 1..10 : Digits[k] = d[i]

\* The lines of the header block, the banner among them.
BannerBlock(date) ==
    << RuleLine, BannerLine, DatePrefix \o date, AuthorLine, RuleLine >>

RECURSIVE JoinLines(_)
\* Every line followed by a line break.
JoinLines(lines) ==
    IF lines = <<>> THEN <<>>
    ELSE Head(lines) \o <<"\n">> \o JoinLines(Tail(lines))

\* C6, as the spec states it: with the header the body starts with the
\* banner line, nothing before it, and the extracted script follows; without
\* the header the body is the extracted script.
C6_AsStated ==
    \A p \in Sessions :
        Parsed(p) =>
            IF run[p].add_header
            THEN /\ FirstLine(run[p].ps1_code) \in {BannerLine, RuleLine}
                 /\ Len(run[p].ps1_code) >= Len(run[p].script)
                 /\ DropTo(run[p].ps1_code,
                           Len(run[p].ps1_code) - Len(run[p].script) + 1) = run[p].script
            ELSE run[p].ps1_code = run[p].script

\* C6, amended: with the header the body is a line break, the five lines of
\* the header block (rule, banner, date, author, rule), four spaces, and the
\* extracted script; its first line is empty and the banner is its third.
\* Without the header the body is the extracted script.
C6_HeaderThenScript ==
    \A p \in Sessions :
        Parsed(p) =>
            /\ run[p].script = IF HasBlock(run[p].ai_code)
                               THEN Trimmed(Interior(run[p].ai_code))
                               ELSE Trimmed(run[p].ai_code)
            /\ IF run[p].add_header
               THEN /\ IsTimestamp(run[p].current_date)
                    /\ run[p].ps1_code =
                          <<"\n">> \o JoinLines(BannerBlock(run[p].current_date))
                          \o <<" ", " ", " ", " ">> \o run[p].script
                    /\ FirstLine(run[p].ps1_code) = <<>>
               ELSE run[p].ps1_code = run[p].script

\* A reply with a fenced script has been given the header.
C6_Witness ==
    \E p \in Sessions :
        /\ Parsed(p) /\ run[p].add_header
        /\ HasBlock(run[p].ai_code)
        /\ run[p].script # <<>>
        /\ run[p].pc = "done" /\ run[p].outcome = "generated"

\* C7: with no typed text and no preset the run ends with the validation
\* error, the model not called and no file touched; and the model is only
\* ever called with a description that is not empty.
C7_EmptyDescriptionRejected ==
    \A p \in Sessions :
        /\ (run[p].pc # "idle" /\ run[p].typed = <<>>
            /\ run[p].prompt_presets = PresetNone) =>
              /\ run[p].pc = "done"
              /\ run[p].outcome = "validation_error"
              /\ run[p].api_calls = 0
              /\ run[p].parse_calls = 0
              /\ fs = run[p].fs_before
        /\ (run[p].pc = "call" \/ run[p].api_calls > 0) =>
              /\ run[p].prompt_base # <<>>
              /\ ~ (run[p].typed = <<>> /\ run[p].prompt_presets = PresetNone)
        /\ (run[p].pc # "idle" /\ run[p].typed = <<>>
            /\ run[p].prompt_presets # PresetNone) =>
              run[p].prompt_base = run[p].prompt_presets

\* A click with nothing typed and no preset has ended in the validation
\* error.
C7_Witness ==
    \E p \in Sessions :
        /\ run[p].pc = "done"
        /\ run[p].outcome = "validation_error"
        /\ run[p].typed = <<>>
        /\ run[p].prompt_presets = PresetNone

\* C8: a run calls the model at most once, whether the call fails or not.
C8_AtMostOneCall ==
    \A p \in Sessions :
        /\ run[p].api_calls <= 1
        /\ run[p].pc \in {"idle", "call"} => run[p].api_calls = 0
        /\ run[p].pc \in {"check", "parse", "open", "write", "close", "download"} =>
              run[p].api_calls = 1

\* A run whose only call failed has ended.
C8_Witness ==
    \E p \in Sessions :
        /\ run[p].pc = "done"
        /\ run[p].api_failed
        /\ run[p].api_calls = 1

\* C9: when the run ends in an error, the file at file_name is as it was
\* before the run, or holds the whole new body.
C9_NoPartialWrite ==
    \A p \in Sessions :
        (run[p].pc = "done" /\ run[p].outcome = "exception") =>
            \/ FileState(fs, run[p].file_name)
                   = FileState(run[p].fs_before, run[p].file_name)
            \/ /\ Encodable(run[p].ps1_code, run[p].encoding)
               /\ FileState(fs, run[p].file_name)
                     = <<TRUE, Encode(run[p].ps1_code, run[p].encoding, platform)>>

\* C10: when two runs with the same file name have both written and
\* closed, the file holds the body of the run that wrote last, and is not
\* empty.
C10_LastWriteWins ==
    \A p, q \in Sessions :
        ( /\ p # q
          /\ run[p].outcome = "generated" /\ run[q].outcome = "generated"
          /\ run[p].file_name = run[q].file_name
          /\ last_flush[run[p].file_name] = p ) =>
            /\ fs[run[p].file_name]
                  = Encode(run[p].ps1_code, run[p].encoding, platform)
            /\ fs[run[p].file_name] # <<>>

\* C11: after a run whose parse_and_save_ps1 call returned, the download
\* offers the returned pair and the file at file_name holds the returned
\* body, written in the chosen encoding, and nothing else: no byte of
\* what a file of that name held before the run.
C11_FileHoldsReturnedBody ==
    \A p \in Sessions :
        run[p].outcome = "generated" =>
            /\ run[p].download = <<run[p].file_name, run[p].ps1_code>>
            /\ FileState(fs, run[p].file_name)
                  = <<TRUE, Encode(run[p].ps1_code, run[p].encoding, platform)>>

\* A run under "ansi" has written a body with a character outside ASCII
\* over a longer file of an earlier run.
C11_Witness ==
    \E p \in Sessions :
        /\ run[p].outcome = "generated"
        /\ run[p].encoding = "ansi"
        /\ \E i \in 1..Len(run[p].ps1_code) : run[p].ps1_code[i] \in NonAscii
        /\ run[p].file_name \in DOMAIN run[p].fs_before
        /\ Len(run[p].fs_before[run[p].file_name]) > Len(fs[run[p].file_name])

\* What a run shows of its parse_and_save_ps1 call: the returned pair, the
\* download offered from it, how the run ended, and the file.
Observed(p) ==
    << run[p].file_name, run[p].ps1_code, run[p].download, run[p].outcome,
       FileState(fs, run[p].file_name) >>

\* C12: of two completed runs with the same description and settings, one
\* on a reply without a fenced block and one on a reply whose first block
\* has the same trimmed interior, what parse_and_save_ps1 returns or sets
\* differs, so that the path taken can be told.
C12_PathsDistinguishable ==
    \A p, q \in Sessions :
        ( /\ run[p].outcome = "generated" /\ run[q].outcome = "generated"
          /\ run[p].prompt_base = run[q].prompt_base
          /\ run[p].encoding = run[q].encoding
          /\ run[p].add_header = run[q].add_header
          /\ ~HasBlock(run[p].ai_code)
          /\ HasBlock(run[q].ai_code)
          /\ Trimmed(run[p].ai_code) = Trimmed(Interior(run[q].ai_code)) ) =>
            Observed(p) # Observed(q)

\* C13: every model call of every cycle starts its chat from an empty
\* history and sends the prompt of its own cycle's description, whatever
\* the session exchanged with the model in earlier cycles.
C13_FreshChatEveryCall ==
    \A p \in Sessions :
        run[p].api_calls > 0 =>
            /\ run[p].history = <<>>
            /\ run[p].message = Prompt(run[p].prompt_base)

\* A call made in a later cycle of a session whose earlier call was
\* answered with another text.
C13_Witness ==
    \E p \in Sessions :
        /\ run[p].api_calls > 0
        /\ run[p].last_exchange # <<>>
        /\ ~run[p].api_failed
        /\ run[p].last_exchange[2] # <<>>
        /\ run[p].last_exchange[2] # run[p].ai_code

\* C14: a run that has called the model goes on to parse_and_save_ps1 and
\* its file write exactly when the call returned a text that is not empty.
\* After an empty text the run ends as after a failed call: the API error,
\* no parse_and_save_ps1, no download, every file as before.  After any
\* other text, white space alone included, parse_and_save_ps1 is invoked
\* once and, when it returns, the file holds the body.  No file changes
\* in a run whose call returned no text or an empty one.
C14_WriteIffReplyNotEmpty ==
    \A p \in Sessions :
        LET r == run[p]
            nonEmpty == ~r.api_failed /\ r.ai_code # None /\ r.ai_code # <<>>
        IN  /\ (r.api_calls > 0 /\ ~nonEmpty) => fs = r.fs_before
            /\ (r.api_calls > 0 /\ r.pc = "done") =>
                  /\ (r.parse_calls = 1) <=> nonEmpty
                  /\ ~nonEmpty =>
                        /\ r.outcome = "api_error"
                        /\ r.parse_calls = 0
                        /\ r.download = <<>>
                  /\ nonEmpty =>
                        /\ r.outcome \in {"generated", "exception"}
                        /\ r.outcome = "generated" =>
                              FileState(fs, r.file_name)
                                = <<TRUE, Encode(r.ps1_code, r.encoding, platform)>>

\* A reply of white space alone has been written to the file, in a session
\* whose cycle before was answered with the empty text.
C14_Witness ==
    \E p \in Sessions :
        /\ run[p].outcome = "generated"
        /\ run[p].ai_code # <<>>
        /\ Strip(run[p].ai_code) = <<>>
        /\ run[p].file_name \in DOMAIN fs
        /\ run[p].last_exchange # <<>>
        /\ run[p].last_exchange[2] = <<>>

====
